---- MODULE Spec2Model ----
(***************************************************************************)
(* A model of fractals.py: the four generators barnsley_fern,              *)
(* hilbert_curve, sierpinski_triangle and dragon_curve.                    *)
(*                                                                         *)
(* A numpy array is a reference into a heap of buffers; np.fliplr returns  *)
(* a view (the same buffer, columns read in reverse), .copy() and          *)
(* np.array / np.concatenate allocate a new buffer, += and indexed         *)
(* assignment write the buffer in place.  A buffer is the sequence of the  *)
(* array's columns, each column a point <<x, y>>.                          *)
(*                                                                         *)
(* The recursion of the three recursive generators is linear, so the call  *)
(* stack is the frames of orders n, n-1, ..., cur: the frames above cur    *)
(* wait at their recursive call and own no array yet.                      *)
(*                                                                         *)
(* Arithmetic is exact.  Hilbert coordinates are integers.  A Sierpinski   *)
(* x is counted in units of 1/2 and a y in units of sqrt(3)/2.  A dragon   *)
(* coordinate is <<a, b>>, standing for (a + b*sqrt(2)) / DragonScale.  A  *)
(* fern coordinate is an integer, standing for itself / FernScale.         *)
(***************************************************************************)
EXTENDS Integers, Sequences, FiniteSets, TLC

\* ---------------------------------------------------------------- bounds
\* largest order passed to hilbert_curve, sierpinski_triangle, dragon_curve
MaxOrder == 4
\* largest n_points passed to barnsley_fern
MaxPoints == 3
\* largest seed passed to barnsley_fern
MaxSeed == 1
\* number of states of the global random generator
RngMod == 16
\* number of nested frames the interpreter allows before RecursionError
RecursionLimit == 7

Orders == (0 - 1)..MaxOrder
PointCounts == (0 - 1)..MaxPoints
NoSeed == [given |-> FALSE, val |-> 0]
Seeds == {NoSeed} \cup {[given |-> TRUE, val |-> s] : s \in (0 - 1)..MaxSeed}

\* pc      the position of the running frame ("idle": no call in progress)
\* fn      the generator called; n, seed: its arguments
\* cur     the order of the running frame; n - cur recursive calls are open
\* i       the loop index of barnsley_fern
\* heap    the buffers of the live arrays
\* loc     the array variables of the running frame, as references
\* lists   the list variables of a sierpinski_triangle frame, as lists of
\*         references
\* rng     the state of numpy's global random generator
\* draws   the number of np.random.random() calls of the call in progress
\* result  the value returned to the user; err: the exception raised
\* memo    history: the arguments and the result of one earlier seeded
\*         barnsley_fern call
VARIABLES pc, fn, n, seed, cur, i, heap, loc, lists, rng, draws, result, err, memo

vars == <<pc, fn, n, seed, cur, i, heap, loc, lists, rng, draws, result, err, memo>>

\* ------------------------------------------------------- arrays and views
NoRef == [buf |-> 0, flip |-> FALSE]

NoLocals ==
    [points |-> NoRef, points_top_left |-> NoRef, points_bottom_left |-> NoRef,
     points_bottom_right |-> NoRef, points_top_right |-> NoRef, points_next |-> NoRef]

NoLists ==
    [triangles |-> <<>>, triangles_top |-> <<>>, triangles_bottom_left |-> <<>>,
     triangles_bottom_right |-> <<>>]

Reverse(s) == [k \in 1..Len(s) |-> s[Len(s) + 1 - k]]

\* the columns of the array that ref r denotes in heap h
View(h, r) == IF r.flip THEN Reverse(h[r.buf]) ELSE h[r.buf]

\* a new buffer holding cols; the new buffer's id is Len(h) + 1
Alloc(h, cols) == Append(h, cols)

NewRef(h) == [buf |-> Len(h) + 1, flip |-> FALSE]

\* np.fliplr(a): a view of a's buffer with the columns in reverse order
fliplr(r) == [buf |-> r.buf, flip |-> ~r.flip]

\* a[row, :] += d, in place
AddRow(h, r, row, d) ==
    [h EXCEPT ![r.buf] =
        [k \in 1..Len(@) |-> IF row = 1 THEN <<@[k][1] + d, @[k][2]>>
                                        ELSE <<@[k][1], @[k][2] + d>>]]

\* a[row].max()
MaxRow(cols, row) ==
    CHOOSE m \in {cols[k][row] : k \in 1..Len(cols)} :
        \A k \in 1..Len(cols) : cols[k][row] <= m

\* the buffer index of column k (1-based) of the array r denotes
Phys(h, r, k) == IF r.flip THEN Len(h[r.buf]) + 1 - k ELSE k

\* a[:, k] = col, in place (through the view)
SetCol(h, r, k, col) == [h EXCEPT ![r.buf][Phys(h, r, k)] = col]

\* --------------------------------------------------------------- Hilbert
hilbert_base == <<<<0, 1>>, <<0, 0>>, <<1, 0>>, <<1, 1>>>>

RECURSIVE _rotate90_hilbert(_, _)
_rotate90_hilbert(cols, k) ==
    LET kk == k % 4
        points_rot == [j \in 1..Len(cols) |-> <<0 - cols[j][2], cols[j][1]>>]
    IN  IF kk = 1 THEN points_rot ELSE _rotate90_hilbert(points_rot, kk - 1)

\* the offset of the comment at line 52 (max + 1) instead of the code's (max)
_hilbert_top_left_comment(h, points) ==
    LET r  == NewRef(h)
        h1 == Alloc(h, _rotate90_hilbert(View(h, points), 1))
        h2 == AddRow(h1, r, 1, MaxRow(View(h1, points), 1) + 1)
        h3 == AddRow(h2, r, 2, MaxRow(View(h2, points), 2) + 1)
    IN  [h |-> h3, r |-> fliplr(r)]

\* each builder returns the heap after it ran and the reference it returns
_hilbert_top_left(h, points) ==
    LET r  == NewRef(h)
        h1 == Alloc(h, _rotate90_hilbert(View(h, points), 1))
        h2 == AddRow(h1, r, 1, MaxRow(View(h1, points), 1))
        h3 == AddRow(h2, r, 2, MaxRow(View(h2, points), 2) + 1)
    IN  [h |-> h3, r |-> fliplr(r)]

_hilbert_bottom_left(h, points) ==
    [h |-> Alloc(h, View(h, points)), r |-> NewRef(h)]

\* points_bottom_right = points, without the copy
_hilbert_bottom_right_alias(h, points) ==
    [h |-> AddRow(h, points, 1, MaxRow(View(h, points), 1) + 1), r |-> points]

_hilbert_bottom_right(h, points) ==
    LET r  == NewRef(h)
        h1 == Alloc(h, View(h, points))
        h2 == AddRow(h1, r, 1, MaxRow(View(h1, points), 1) + 1)
    IN  [h |-> h2, r |-> r]

_hilbert_top_right(h, points) ==
    LET r  == NewRef(h)
        h1 == Alloc(h, _rotate90_hilbert(View(h, points), 3))
        h2 == AddRow(h1, r, 1, MaxRow(View(h1, points), 1) + 1)
        h3 == AddRow(h2, r, 2, 2 * MaxRow(View(h2, points), 2) + 1)
    IN  [h |-> h3, r |-> fliplr(r)]

\* the bottom-left quadrant left out of the concatenation
hilbert_concatenate_three(h, l) ==
    View(h, l.points_top_left) \o View(h, l.points_bottom_right)
        \o View(h, l.points_top_right)

hilbert_concatenate(h, l) ==
    View(h, l.points_top_left) \o View(h, l.points_bottom_left)
        \o View(h, l.points_bottom_right) \o View(h, l.points_top_right)

\* ------------------------------------------------------------ Sierpinski
\* [[0, 1, 0.5, 0], [0, 0, 0.5*sqrt(3), 0]]: x in units of 1/2, y in units of
\* sqrt(3)/2
sierpinski_base_skew == <<<<0, 0>>, <<2, 0>>, <<2, 1>>, <<0, 0>>>>

sierpinski_base == <<<<0, 0>>, <<2, 0>>, <<1, 1>>, <<0, 0>>>>

\* 2**(k-3), in units of 1/2
top_dx(k) == 2^(k - 2)

\* 2**(k-3)*sqrt(3), in units of sqrt(3)/2
top_dy(k) == 2^(k - 2)

\* 2**(k-2), in units of 1/2
right_dx(k) == 2^(k - 1)

\* [triangle.copy() for triangle in refs]
copy_list(h, refs) ==
    [h |-> h \o [k \in 1..Len(refs) |-> View(h, refs[k])],
     rs |-> [k \in 1..Len(refs) |-> [buf |-> Len(h) + k, flip |-> FALSE]]]

\* for triangle in refs: triangle[0, :] += dx; triangle[1, :] += dy
RECURSIVE shift_list(_, _, _, _)
shift_list(h, refs, dx, dy) ==
    IF refs = <<>> THEN h
    ELSE shift_list(AddRow(AddRow(h, Head(refs), 1, dx), Head(refs), 2, dy),
                    Tail(refs), dx, dy)

shift_top(h, refs, k) == shift_list(h, refs, top_dx(k), top_dy(k))

shift_bottom_right(h, refs, k) == shift_list(h, refs, right_dx(k), 0)

\* the bottom-left copy left out of the concatenation
sierpinski_concatenate_two(l) == l.triangles_top \o l.triangles_bottom_right

sierpinski_concatenate(l) ==
    l.triangles_top \o l.triangles_bottom_left \o l.triangles_bottom_right

\* ----------------------------------------------------------------- dragon
\* a dragon coordinate <<a, b>> stands for (a + b*sqrt(2)) / DragonScale
DragonScale == 2^MaxOrder

ZAdd(u, v) == <<u[1] + v[1], u[2] + v[2]>>

ZSub(u, v) == <<u[1] - v[1], u[2] - v[2]>>

ZNeg(u) == <<0 - u[1], 0 - u[2]>>

\* a factor <<c, d>> stands for (c + d*sqrt(2)) / 2
ZMul(f, u) ==
    <<(f[1] * u[1] + 2 * f[2] * u[2]) \div 2, (f[1] * u[2] + f[2] * u[1]) \div 2>>

\* 1 / (2 + sqrt(2)) = (2 - sqrt(2)) / 2
ratio == <<2, 0 - 1>>

\* 1 - ratio = sqrt(2) / 2
one_minus_ratio == ZSub(<<2, 0>>, ratio)

\* [[0, 0], [0, 1]]
dragon_base == <<<< <<0, 0>>, <<0, 0>> >>, << <<0, 0>>, <<DragonScale, 0>> >>>>

\* a[row, :] += d, in place, for dragon coordinates
ZAddRow(h, r, row, d) ==
    [h EXCEPT ![r.buf] =
        [k \in 1..Len(@) |-> IF row = 1 THEN <<ZAdd(@[k][1], d), @[k][2]>>
                                        ELSE <<@[k][1], ZAdd(@[k][2], d)>>]]

Last(cols) == cols[Len(cols)]

_rotate90_dragon(h, points) ==
    LET r  == NewRef(h)
        p  == View(h, points)
        h1 == Alloc(h, [k \in 1..Len(p) |->
                          <<ZAdd(ZNeg(p[k][2]), Last(p)[2]), ZSub(p[k][1], Last(p)[1])>>])
        h2 == ZAddRow(h1, r, 1, Last(View(h1, points))[1])
        h3 == ZAddRow(h2, r, 2, Last(View(h2, points))[2])
    IN  [h |-> h3, r |-> fliplr(r)]

\* the weights exchanged: a * ratio + b * (1-ratio)
blend_swapped(a, b) ==
    <<ZAdd(ZMul(ratio, a[1]), ZMul(one_minus_ratio, b[1])),
      ZAdd(ZMul(ratio, a[2]), ZMul(one_minus_ratio, b[2]))>>

\* a * (1-ratio) + b * ratio, on columns
blend(a, b) ==
    <<ZAdd(ZMul(one_minus_ratio, a[1]), ZMul(ratio, b[1])),
      ZAdd(ZMul(one_minus_ratio, a[2]), ZMul(ratio, b[2]))>>

\* points[:, -1] = points[:, -1] * (1-ratio) + points[:, -2] * ratio
smooth_last(h, points) ==
    LET p == View(h, points)
    IN  SetCol(h, points, Len(p), blend(p[Len(p)], p[Len(p) - 1]))

\* points_next[:, 0] = points_next[:, 0] * (1-ratio) + points_next[:, 1] * ratio
smooth_first(h, points_next) ==
    LET q == View(h, points_next)
    IN  SetCol(h, points_next, 1, blend(q[1], q[2]))

\* the junction kept once: the first column of points_next dropped
dragon_concatenate_shared(h, l) == View(h, l.points) \o Tail(View(h, l.points_next))

dragon_concatenate(h, l) == View(h, l.points) \o View(h, l.points_next)

\* ------------------------------------------------------------------- fern
\* a fern coordinate c stands for c / FernScale
FernScale == 100^(MaxPoints - 1)

\* np.random.seed(s): the generator's state is a function of the seed alone
rng_seed(s) == (7 * s + 1) % RngMod

\* the state after one np.random.random()
rng_next(s) == (5 * s + 3) % RngMod

\* the value np.random.random() draws in state s, in thousandths: in [0, 1)
rng_random(s) == (s * 1000) \div RngMod

\* "if seed:", which takes the seed 0 for no seed
seed_truthy(sd) == sd.given /\ sd.val # 0

\* seed is not None
seed_given(sd) == sd.given

\* the point that follows point p = (x, y) when r was drawn
fern_map(r, p) ==
    LET x == p[1]
        y == p[2]
    IN  IF r <= 10 THEN <<0, (16 * y) \div 100>>
        ELSE IF r <= 860
        THEN <<(85 * x + 4 * y) \div 100,
               ((0 - 4) * x + 85 * y + 160 * FernScale) \div 100>>
        ELSE IF r <= 930
        THEN <<(20 * x - 26 * y) \div 100,
               (23 * x + 22 * y + 160 * FernScale) \div 100>>
        ELSE <<((0 - 15) * x + 28 * y) \div 100,
               (26 * x + 24 * y + 44 * FernScale) \div 100>>

\* np.ones((2, k))
ones(k) == [j \in 1..k |-> <<FernScale, FernScale>>]

\* np.zeros((2, k))
zeros(k) == [j \in 1..k |-> <<0, 0>>]

\* ------------------------------------------------------------ specification
Init ==
    /\ pc = "idle"
    /\ fn = "none"
    /\ n = 0
    /\ seed = NoSeed
    /\ cur = 0
    /\ i = 0
    /\ heap = <<>>
    /\ loc = NoLocals
    /\ lists = NoLists
    /\ rng \in 0..(RngMod - 1)
    /\ draws = 0
    /\ result = <<>>
    /\ err = "none"
    /\ memo = [set |-> FALSE, fresh |-> FALSE, n |-> 0, seed |-> NoSeed, result |-> <<>>]

\* the frame of order cur returns the array cols: to the caller's frame, which
\* goes on at position next with the array bound to points, or to the user
ReturnArray(cols, next) ==
    /\ lists' = NoLists
    /\ i' = 0
    /\ IF cur = n
       THEN /\ pc' = "done"
            /\ result' = cols
            /\ heap' = <<>>
            /\ loc' = NoLocals
            /\ cur' = cur
       ELSE /\ pc' = next
            /\ result' = result
            /\ heap' = <<cols>>
            /\ loc' = [NoLocals EXCEPT !.points = [buf |-> 1, flip |-> FALSE]]
            /\ cur' = cur + 1

\* the frame of order cur calls itself with cur - 1
RecursiveCall ==
    /\ IF n - cur + 1 >= RecursionLimit
       THEN pc' = "error" /\ err' = "RecursionError" /\ cur' = cur
       ELSE pc' = pc /\ err' = err /\ cur' = cur - 1
    /\ UNCHANGED <<i, heap, loc, lists, result>>

CallHilbert ==
    /\ pc = "idle"
    /\ \E order \in Orders : n' = order /\ cur' = order
    /\ fn' = "hilbert_curve"
    /\ pc' = "hilbert_enter"
    /\ UNCHANGED <<seed, i, heap, loc, lists, rng, draws, result, err, memo>>

HilbertEnter ==
    /\ pc = "hilbert_enter"
    /\ IF cur = 1
       THEN ReturnArray(hilbert_base, "hilbert_top_left") /\ err' = err
       ELSE RecursiveCall
    /\ UNCHANGED <<fn, n, seed, rng, draws, memo>>

HilbertTopLeft ==
    /\ pc = "hilbert_top_left"
    /\ LET b == _hilbert_top_left(heap, loc.points)
       IN  heap' = b.h /\ loc' = [loc EXCEPT !.points_top_left = b.r]
    /\ pc' = "hilbert_bottom_left"
    /\ UNCHANGED <<fn, n, seed, cur, i, lists, rng, draws, result, err, memo>>

HilbertBottomLeft ==
    /\ pc = "hilbert_bottom_left"
    /\ LET b == _hilbert_bottom_left(heap, loc.points)
       IN  heap' = b.h /\ loc' = [loc EXCEPT !.points_bottom_left = b.r]
    /\ pc' = "hilbert_bottom_right"
    /\ UNCHANGED <<fn, n, seed, cur, i, lists, rng, draws, result, err, memo>>

HilbertBottomRight ==
    /\ pc = "hilbert_bottom_right"
    /\ LET b == _hilbert_bottom_right(heap, loc.points)
       IN  heap' = b.h /\ loc' = [loc EXCEPT !.points_bottom_right = b.r]
    /\ pc' = "hilbert_top_right"
    /\ UNCHANGED <<fn, n, seed, cur, i, lists, rng, draws, result, err, memo>>

HilbertTopRight ==
    /\ pc = "hilbert_top_right"
    /\ LET b == _hilbert_top_right(heap, loc.points)
       IN  heap' = b.h /\ loc' = [loc EXCEPT !.points_top_right = b.r]
    /\ pc' = "hilbert_concatenate"
    /\ UNCHANGED <<fn, n, seed, cur, i, lists, rng, draws, result, err, memo>>

HilbertConcatenate ==
    /\ pc = "hilbert_concatenate"
    /\ ReturnArray(hilbert_concatenate(heap, loc), "hilbert_top_left")
    /\ UNCHANGED <<fn, n, seed, rng, draws, err, memo>>

\* the frame of order cur returns the list refs of arrays
ReturnList(refs, next) ==
    LET value == [k \in 1..Len(refs) |-> View(heap, refs[k])]
    IN  /\ loc' = NoLocals
        /\ i' = 0
        /\ IF cur = n
           THEN /\ pc' = "done"
                /\ result' = value
                /\ heap' = <<>>
                /\ lists' = NoLists
                /\ cur' = cur
           ELSE /\ pc' = next
                /\ result' = result
                /\ heap' = value
                /\ lists' = [NoLists EXCEPT !.triangles =
                               [k \in 1..Len(refs) |-> [buf |-> k, flip |-> FALSE]]]
                /\ cur' = cur + 1

CallSierpinski ==
    /\ pc = "idle"
    /\ \E order \in Orders : n' = order /\ cur' = order
    /\ fn' = "sierpinski_triangle"
    /\ pc' = "sierpinski_enter"
    /\ UNCHANGED <<seed, i, heap, loc, lists, rng, draws, result, err, memo>>

SierpinskiEnter ==
    /\ pc = "sierpinski_enter"
    /\ IF cur = 1
       THEN /\ heap' = <<sierpinski_base>>
            /\ pc' = "sierpinski_return_base"
            /\ lists' = [NoLists EXCEPT !.triangles = <<[buf |-> 1, flip |-> FALSE]>>]
            /\ UNCHANGED <<cur, i, loc, result, err>>
       ELSE RecursiveCall
    /\ UNCHANGED <<fn, n, seed, rng, draws, memo>>

SierpinskiReturnBase ==
    /\ pc = "sierpinski_return_base"
    /\ ReturnList(lists.triangles, "sierpinski_copy_top")
    /\ UNCHANGED <<fn, n, seed, rng, draws, err, memo>>

SierpinskiCopyTop ==
    /\ pc = "sierpinski_copy_top"
    /\ LET c == copy_list(heap, lists.triangles)
       IN  heap' = c.h /\ lists' = [lists EXCEPT !.triangles_top = c.rs]
    /\ pc' = "sierpinski_copy_bottom_left"
    /\ UNCHANGED <<fn, n, seed, cur, i, loc, rng, draws, result, err, memo>>

SierpinskiCopyBottomLeft ==
    /\ pc = "sierpinski_copy_bottom_left"
    /\ LET c == copy_list(heap, lists.triangles)
       IN  heap' = c.h /\ lists' = [lists EXCEPT !.triangles_bottom_left = c.rs]
    /\ pc' = "sierpinski_copy_bottom_right"
    /\ UNCHANGED <<fn, n, seed, cur, i, loc, rng, draws, result, err, memo>>

SierpinskiCopyBottomRight ==
    /\ pc = "sierpinski_copy_bottom_right"
    /\ LET c == copy_list(heap, lists.triangles)
       IN  heap' = c.h /\ lists' = [lists EXCEPT !.triangles_bottom_right = c.rs]
    /\ pc' = "sierpinski_shift_top"
    /\ UNCHANGED <<fn, n, seed, cur, i, loc, rng, draws, result, err, memo>>

SierpinskiShiftTop ==
    /\ pc = "sierpinski_shift_top"
    /\ heap' = shift_top(heap, lists.triangles_top, cur)
    /\ pc' = "sierpinski_shift_bottom_right"
    /\ UNCHANGED <<fn, n, seed, cur, i, loc, lists, rng, draws, result, err, memo>>

SierpinskiShiftBottomRight ==
    /\ pc = "sierpinski_shift_bottom_right"
    /\ heap' = shift_bottom_right(heap, lists.triangles_bottom_right, cur)
    /\ pc' = "sierpinski_concatenate"
    /\ UNCHANGED <<fn, n, seed, cur, i, loc, lists, rng, draws, result, err, memo>>

SierpinskiConcatenate ==
    /\ pc = "sierpinski_concatenate"
    /\ ReturnList(sierpinski_concatenate(lists), "sierpinski_copy_top")
    /\ UNCHANGED <<fn, n, seed, rng, draws, err, memo>>

CallDragon ==
    /\ pc = "idle"
    /\ \E order \in Orders : n' = order /\ cur' = order
    /\ fn' = "dragon_curve"
    /\ pc' = "dragon_enter"
    /\ UNCHANGED <<seed, i, heap, loc, lists, rng, draws, result, err, memo>>

DragonEnter ==
    /\ pc = "dragon_enter"
    /\ IF cur = 0
       THEN ReturnArray(dragon_base, "dragon_rotate") /\ err' = err
       ELSE RecursiveCall
    /\ UNCHANGED <<fn, n, seed, rng, draws, memo>>

DragonRotate ==
    /\ pc = "dragon_rotate"
    /\ LET b == _rotate90_dragon(heap, loc.points)
       IN  heap' = b.h /\ loc' = [loc EXCEPT !.points_next = b.r]
    /\ pc' = "dragon_smooth_last"
    /\ UNCHANGED <<fn, n, seed, cur, i, lists, rng, draws, result, err, memo>>

DragonSmoothLast ==
    /\ pc = "dragon_smooth_last"
    /\ heap' = smooth_last(heap, loc.points)
    /\ pc' = "dragon_smooth_first"
    /\ UNCHANGED <<fn, n, seed, cur, i, loc, lists, rng, draws, result, err, memo>>

DragonSmoothFirst ==
    /\ pc = "dragon_smooth_first"
    /\ heap' = smooth_first(heap, loc.points_next)
    /\ pc' = "dragon_concatenate"
    /\ UNCHANGED <<fn, n, seed, cur, i, loc, lists, rng, draws, result, err, memo>>

DragonConcatenate ==
    /\ pc = "dragon_concatenate"
    /\ ReturnArray(dragon_concatenate(heap, loc), "dragon_rotate")
    /\ UNCHANGED <<fn, n, seed, rng, draws, err, memo>>

CallFern ==
    /\ pc = "idle"
    /\ \E count \in PointCounts : n' = count /\ cur' = count
    /\ \E sd \in Seeds : seed' = sd
    /\ fn' = "barnsley_fern"
    /\ pc' = "fern_seed"
    /\ UNCHANGED <<i, heap, loc, lists, rng, draws, result, err, memo>>

\* if seed is not None: np.random.seed(seed), which raises on a negative seed
FernSeed ==
    /\ pc = "fern_seed"
    /\ IF seed_given(seed)
       THEN IF seed.val < 0
            THEN pc' = "error" /\ err' = "ValueError" /\ rng' = rng
            ELSE pc' = "fern_zeros" /\ err' = err /\ rng' = rng_seed(seed.val)
       ELSE pc' = "fern_zeros" /\ err' = err /\ rng' = rng
    /\ UNCHANGED <<fn, n, seed, cur, i, heap, loc, lists, draws, result, memo>>

\* points = np.zeros((2, n_points)), which raises on a negative dimension
FernZeros ==
    /\ pc = "fern_zeros"
    /\ IF n < 0
       THEN pc' = "error" /\ err' = "ValueError" /\ UNCHANGED <<heap, loc, i>>
       ELSE /\ pc' = "fern_loop"
            /\ err' = err
            /\ heap' = <<zeros(n)>>
            /\ loc' = [NoLocals EXCEPT !.points = [buf |-> 1, flip |-> FALSE]]
            /\ i' = 1
    /\ UNCHANGED <<fn, n, seed, cur, lists, rng, draws, result, memo>>

\* one iteration of for i in range(1, n_points); column i + 1 is points[:, i]
FernLoop ==
    /\ pc = "fern_loop"
    /\ i < n
    /\ heap' = SetCol(heap, loc.points, i + 1,
                      fern_map(rng_random(rng), View(heap, loc.points)[i]))
    /\ rng' = rng_next(rng)
    /\ draws' = draws + 1
    /\ i' = i + 1
    /\ UNCHANGED <<pc, fn, n, seed, cur, loc, lists, result, err, memo>>

\* the loop is over: return points.  memo keeps the arguments and the result of
\* one seeded call, to compare later calls with; it is fresh until that call
\* is over
FernReturn ==
    /\ pc = "fern_loop"
    /\ i >= n
    /\ pc' = "done"
    /\ result' = View(heap, loc.points)
    /\ heap' = <<>>
    /\ loc' = NoLocals
    /\ i' = 0
    /\ \/ memo' = memo
       \/ /\ ~memo.set
          /\ seed.given
          /\ memo' = [set |-> TRUE, fresh |-> TRUE, n |-> n, seed |-> seed,
                      result |-> View(heap, loc.points)]
    /\ UNCHANGED <<fn, n, seed, cur, lists, rng, draws, err>>

\* the call is over (returned or raised); the process goes on to the next call
Finish ==
    /\ pc \in {"done", "error"}
    /\ pc' = "idle"
    /\ fn' = "none"
    /\ n' = 0
    /\ seed' = NoSeed
    /\ cur' = 0
    /\ i' = 0
    /\ heap' = <<>>
    /\ loc' = NoLocals
    /\ lists' = NoLists
    /\ draws' = 0
    /\ result' = <<>>
    /\ err' = "none"
    /\ memo' = [memo EXCEPT !.fresh = FALSE]
    /\ rng' = rng

Next ==
    \/ CallHilbert
    \/ HilbertEnter
    \/ HilbertTopLeft
    \/ HilbertBottomLeft
    \/ HilbertBottomRight
    \/ HilbertTopRight
    \/ HilbertConcatenate
    \/ CallSierpinski
    \/ SierpinskiEnter
    \/ SierpinskiReturnBase
    \/ SierpinskiCopyTop
    \/ SierpinskiCopyBottomLeft
    \/ SierpinskiCopyBottomRight
    \/ SierpinskiShiftTop
    \/ SierpinskiShiftBottomRight
    \/ SierpinskiConcatenate
    \/ CallDragon
    \/ DragonEnter
    \/ DragonRotate
    \/ DragonSmoothLast
    \/ DragonSmoothFirst
    \/ DragonConcatenate
    \/ CallFern
    \/ FernSeed
    \/ FernZeros
    \/ FernLoop
    \/ FernReturn
    \/ Finish

Spec == Init /\ [][Next]_vars

\* ------------------------------------------------------------- properties
Returned(f) == pc = "done" /\ fn = f

Abs(v) == IF v < 0 THEN 0 - v ELSE v

\* C1 (as stated): dragon_curve(n) returns exactly 2^n + 1 points.
C1_DragonCountAsStated == Returned("dragon_curve") => Len(result) = 2^n + 1

\* C1 (amended): dragon_curve(n) returns exactly 2^(n+1) points: 2 at order 0,
\* doubled by every order, the junction being kept in both halves.
C1_DragonCount == Returned("dragon_curve") => Len(result) = 2^(n + 1)

C1_Witness == Returned("dragon_curve") /\ n >= 2 /\ Len(result) = 2^(n + 1)

\* C2: for n >= 1, hilbert_curve(n) returns exactly 4^n points.
C2_HilbertCount == Returned("hilbert_curve") => (n >= 1 /\ Len(result) = 4^n)

C2_Witness == Returned("hilbert_curve") /\ n >= 3 /\ Len(result) = 4^n

\* C3: for n >= 1, sierpinski_triangle(n) returns exactly 3^(n-1) triangles,
\* each of exactly 4 points, the first and the last of them identical.
C3_SierpinskiCount ==
    Returned("sierpinski_triangle") =>
        /\ n >= 1
        /\ Len(result) = 3^(n - 1)
        /\ \A t \in 1..Len(result) : Len(result[t]) = 4 /\ result[t][1] = result[t][4]

C3_Witness ==
    /\ Returned("sierpinski_triangle")
    /\ n >= 3
    /\ Len(result) = 3^(n - 1)
    /\ result[1][1] # result[2][1]

InvalidOrder ==
    \/ fn \in {"hilbert_curve", "sierpinski_triangle"} /\ n <= 0
    \/ fn = "dragon_curve" /\ n < 0

\* C4: a call with an order outside the domain fails fast: it makes no
\* recursive call, computes no coordinate, returns nothing and ends in the
\* Invalid Domain Input error.
C4_FailFast ==
    InvalidOrder =>
        /\ cur = n
        /\ heap = <<>>
        /\ result = <<>>
        /\ pc \in {"hilbert_enter", "sierpinski_enter", "dragon_enter", "error"}
        /\ pc = "error" => err = "InvalidDomainInput"

ValidSeed == ~seed.given \/ seed.val >= 0

C6_SeedDeterminism ==
    (Returned("barnsley_fern") /\ memo.set /\ memo.n = n /\ memo.seed = seed) =>
        result = memo.result

C6_Witness ==
    /\ Returned("barnsley_fern")
    /\ memo.set /\ ~memo.fresh
    /\ memo.n = n /\ memo.seed = seed
    /\ seed.val = 0
    /\ n >= 3
    /\ result = memo.result

ZTimes(f, u) == <<f[1] * u[1] + 2 * f[2] * u[2], f[1] * u[2] + f[2] * u[1]>>

\* the squared distance of two dragon points, times DragonScale^2
SqDist(p, q) ==
    ZAdd(ZTimes(ZSub(p[1], q[1]), ZSub(p[1], q[1])),
         ZTimes(ZSub(p[2], q[2]), ZSub(p[2], q[2])))

\* the second-to-last point of P, its last point before the smoothing and its
\* last point after the smoothing, in a step of the smoothing of P
BeforeJunction == View(heap, loc.points)[Len(View(heap, loc.points)) - 1]

Unsmoothed == Last(View(heap, loc.points))

Smoothed == Last(View(heap', loc.points))

\* C8 (as stated): the distance from the second-to-last point of P to the
\* smoothed point is ratio times the length of the segment from the
\* second-to-last point of P to its last point before the smoothing.  The
\* distances are compared by their squares, times 4.
C8_JunctionAsStated ==
    [][pc = "dragon_smooth_last" =>
          ZTimes(<<4, 0>>, SqDist(BeforeJunction, Smoothed))
              = ZTimes(ZTimes(ratio, ratio), SqDist(BeforeJunction, Unsmoothed))]_vars

\* C8 (amended): that distance is (1 - ratio) times the length of the segment;
\* it is the smoothed point's distance from the last point before the
\* smoothing that is ratio times the length, for ratio = 1/(2+sqrt(2)).
C8_Junction ==
    [][pc = "dragon_smooth_last" =>
          /\ ZTimes(<<4, 0>>, SqDist(BeforeJunction, Smoothed))
               = ZTimes(ZTimes(one_minus_ratio, one_minus_ratio),
                        SqDist(BeforeJunction, Unsmoothed))
          /\ ZTimes(<<4, 0>>, SqDist(Unsmoothed, Smoothed))
               = ZTimes(ZTimes(ratio, ratio), SqDist(BeforeJunction, Unsmoothed))]_vars

C8_Witness ==
    /\ fn = "dragon_curve"
    /\ pc = "dragon_smooth_first"
    /\ cur >= 2
    /\ Last(View(heap, loc.points)) # View(heap, loc.points_next)[1]

\* the squared length of the side from corner a to corner b of triangle t,
\* times 4
Side2(t, a, b) ==
    (t[b][1] - t[a][1]) * (t[b][1] - t[a][1])
        + 3 * (t[b][2] - t[a][2]) * (t[b][2] - t[a][2])

Sides == {<<1, 2>>, <<2, 3>>, <<3, 4>>}

\* C9 (as stated): every triangle of sierpinski_triangle(n) has the side length
\* 2^-(n-1).
C9_ScaledAsStated ==
    Returned("sierpinski_triangle") =>
        \A t \in 1..Len(result) : \A sd \in Sides :
            Side2(result[t], sd[1], sd[2]) * 4^(n - 1) = 4

\* C9 (amended): every triangle of sierpinski_triangle(n) is a translate of the
\* order-1 triangle: the triangles are congruent, with the side length 1 at
\* every order n (the figure grows, the triangles are not scaled).
C9_Congruent ==
    Returned("sierpinski_triangle") =>
        \A t \in 1..Len(result) :
            /\ \A sd \in Sides : Side2(result[t], sd[1], sd[2]) = 4
            /\ \A k \in 1..4 :
                  /\ result[t][k][1] - result[t][1][1] = sierpinski_base[k][1]
                  /\ result[t][k][2] - result[t][1][2] = sierpinski_base[k][2]

C9_Witness ==
    /\ Returned("sierpinski_triangle")
    /\ n >= 2
    /\ \A sd \in Sides : Side2(result[Len(result)], sd[1], sd[2]) = 4

\* the buffers the references of a list denote
Bufs(refs) == {refs[k].buf : k \in 1..Len(refs)}

\* every buffer of the heap but those of set w is left as it is
OnlyWrites(w) ==
    /\ Len(heap') >= Len(heap)
    /\ \A b \in (1..Len(heap)) \ w : heap'[b] = heap[b]

\* list l is made of new buffers, one for each of its arrays
FreshList(l) ==
    /\ Bufs(l) \subseteq (Len(heap) + 1)..Len(heap')
    /\ Cardinality(Bufs(l)) = Len(l)

\* C10: no sibling copy observes another's writes.  A Hilbert quadrant builder
\* leaves the order-(n-1) curve and the quadrants built before it unchanged and
\* returns new storage; the Sierpinski copies are new storage and the
\* translation of one copy changes neither the order-(n-1) list nor another
\* copy; the dragon's P_next is new storage computed from P before the
\* smoothing, the smoothing of P's last point leaves P_next unchanged and the
\* smoothing of P_next's first point leaves P unchanged.
C10_NoSharedWrites ==
    [][/\ pc = "hilbert_top_left" =>
            OnlyWrites({}) /\ loc'.points_top_left.buf > Len(heap)
       /\ pc = "hilbert_bottom_left" =>
            OnlyWrites({}) /\ loc'.points_bottom_left.buf > Len(heap)
       /\ pc = "hilbert_bottom_right" =>
            OnlyWrites({}) /\ loc'.points_bottom_right.buf > Len(heap)
       /\ pc = "hilbert_top_right" =>
            OnlyWrites({}) /\ loc'.points_top_right.buf > Len(heap)
       /\ pc = "sierpinski_copy_top" =>
            OnlyWrites({}) /\ FreshList(lists'.triangles_top)
       /\ pc = "sierpinski_copy_bottom_left" =>
            OnlyWrites({}) /\ FreshList(lists'.triangles_bottom_left)
       /\ pc = "sierpinski_copy_bottom_right" =>
            OnlyWrites({}) /\ FreshList(lists'.triangles_bottom_right)
       /\ pc = "sierpinski_shift_top" =>
            /\ OnlyWrites(Bufs(lists.triangles_top))
            /\ Bufs(lists.triangles_top)
                 \cap (Bufs(lists.triangles) \cup Bufs(lists.triangles_bottom_left)
                         \cup Bufs(lists.triangles_bottom_right)) = {}
       /\ pc = "sierpinski_shift_bottom_right" =>
            /\ OnlyWrites(Bufs(lists.triangles_bottom_right))
            /\ Bufs(lists.triangles_bottom_right)
                 \cap (Bufs(lists.triangles) \cup Bufs(lists.triangles_bottom_left)
                         \cup Bufs(lists.triangles_top)) = {}
       /\ pc = "dragon_rotate" =>
            OnlyWrites({}) /\ loc'.points_next.buf > Len(heap)
       /\ pc = "dragon_smooth_last" =>
            /\ OnlyWrites({loc.points.buf})
            /\ loc.points_next.buf # loc.points.buf
            /\ View(heap', loc.points_next)[1] = Last(View(heap, loc.points))
       /\ pc = "dragon_smooth_first" =>
            /\ OnlyWrites({loc.points_next.buf})
            /\ loc.points_next.buf # loc.points.buf
      ]_vars

C10_Witness ==
    /\ fn = "hilbert_curve"
    /\ pc = "hilbert_concatenate"
    /\ cur >= 2
    /\ View(heap, loc.points_bottom_left) = View(heap, loc.points)
    /\ View(heap, loc.points_bottom_right) # View(heap, loc.points)
    /\ Cardinality({loc.points.buf, loc.points_top_left.buf, loc.points_bottom_left.buf,
                    loc.points_bottom_right.buf, loc.points_top_right.buf}) = 5
====
